---- MODULE Spec2Model ----
(***************************************************************************)
(* A model of the Swiss municipality crawler (src/src/index.ts).           *)
(*                                                                         *)
(* Two state machines share this module:                                   *)
(*   Spec          one run of crawlMunicipalities(): discovery, resume,    *)
(*                 filtering, the batch loop with its concurrent           *)
(*                 extractMunicipalityData pipelines, the output file.     *)
(*   SpecStylizer  the generateStylizedImage invocations of successive     *)
(*                 batches, step by step, racing on the image directory.   *)
(***************************************************************************)
EXTENDS Integers, Sequences, FiniteSets, TLC

VARIABLES
    \* ---- crawlMunicipalities ----
    pc,               \* position of the run
    listing,          \* rows of the index page (the names of the links), an input
    municipalityLinks,\* const municipalityLinks (line 582)
    outFile,          \* output/municipalities.json: [exists, text]
    municipalities,   \* let municipalities (line 590), a parsed JSON value
    linksToProcess,   \* const linksToProcess (line 603)
    i,                \* the loop variable of line 613
    results,          \* the promises of the running batch (line 622)
    abortCause,       \* why the promise of crawlMunicipalities was rejected
    \* history of the run, read by the properties only
    priorFile,        \* the output file as the run found it
    priorLoaded,      \* the array loaded by the Resume step
    passed,           \* links handed to extractMunicipalityData, in call order
    completed,        \* non-null results of the batches whose write finished
    log,              \* batch / write / sleep events in order
    \* ---- generateStylizedImage ----
    imgFiles,         \* files of output/images: set of [base, ext]
    inv,              \* the invocations of the running batch
    imgWritten,       \* history: [name, path] of the files invocations wrote
    round             \* number of batches started

crawlVars == <<pc, listing, municipalityLinks, outFile, municipalities,
               linksToProcess, i, results, abortCause, priorFile, priorLoaded, passed,
               completed, log>>
stylVars == <<imgFiles, inv, imgWritten, round>>
vars == <<crawlVars, stylVars>>

(***************************************************************************)
(* Bounds of the model.                                                    *)
(***************************************************************************)
MaxLinks == 6
MaxPrior == 2
MaxConc == 2
MaxRounds == 2

(***************************************************************************)
(* Program constants.                                                      *)
(***************************************************************************)
BATCH_SIZE == 5
maxRetries == 3
SleepMs == 1000

(***************************************************************************)
(* Names are sequences of characters, so that the file-name sanitisation   *)
(* is computed and two names can collide.                                  *)
(***************************************************************************)
AlphaNum == {"a", "b", "A", "B", "0", "5"}
NameADash == <<"a", "-">>
NameASpace == <<"a", " ">>
NameB == <<"b">>
CrawlNames == {NameADash, NameB}
Undefined == <<"#undefined">>
Null == [t |-> "null", name |-> <<>>, url |-> 0]

RECURSIVE SeqsUpTo(_, _)
SeqsUpTo(S, n) ==
    IF n = 0 THEN {<<>>}
    ELSE LET shorter == SeqsUpTo(S, n - 1)
         IN shorter \cup {Append(s, x) : s \in {t \in shorter : Len(t) = n - 1}, x \in S}

(***************************************************************************)
(* JSON.  A text is a sequence of tokens; a value is an array of elements  *)
(* or a scalar.  Elements and tokens share one shape so that TLC can       *)
(* compare them.                                                           *)
(***************************************************************************)
Tok(t) == [t |-> t, name |-> <<>>, url |-> 0]
Municipality(name, url) == [t |-> "rec", name |-> name, url |-> url]
ElemKinds == {"rec", "null", "num"}
ScalarKinds == {"null", "num", "obj"}
Array(items) == [k |-> "array", items |-> items]
Scalar(k) == [k |-> k, items |-> <<>>]
EmptyArray == Array(<<>>)

RECURSIVE JoinItems(_)
JoinItems(items) ==
    IF Len(items) = 0 THEN <<>>
    ELSE IF Len(items) = 1 THEN <<items[1]>>
    ELSE <<items[1], Tok("comma")>> \o JoinItems(Tail(items))

\* JSON.stringify(municipalities, null, 2)
Stringify(v) ==
    IF v.k = "array" THEN <<Tok("lb")>> \o JoinItems(v.items) \o <<Tok("rb")>>
    ELSE <<Tok(v.k)>>

\* JSON.parse: [ok |-> FALSE] is a thrown SyntaxError.
Parse(text) ==
    LET n == Len(text)
        inner == SubSeq(text, 2, n - 1)
        m == Len(inner)
        wellFormed ==
            /\ n >= 2
            /\ text[1].t = "lb"
            /\ text[n].t = "rb"
            /\ (m = 0 \/ m % 2 = 1)
            /\ \A j \in 1..m : IF j % 2 = 1 THEN inner[j].t \in ElemKinds
                                            ELSE inner[j].t = "comma"
    IN  IF n = 1 /\ text[1].t \in ScalarKinds
            THEN [ok |-> TRUE, val |-> Scalar(text[1].t)]
        ELSE IF wellFormed
            THEN [ok |-> TRUE,
                  val |-> Array([j \in 1..((m + 1) \div 2) |-> inner[2 * j - 1]])]
        ELSE [ok |-> FALSE, val |-> EmptyArray]

(***************************************************************************)
(* The inputs of a run: the index page and the prior output file.          *)
(***************************************************************************)
\* The crawler treats all names alike and the prior files below hold either
\* name, so the first row of a page is taken to carry NameADash.
Listings == {l \in SeqsUpTo(CrawlNames, MaxLinks) : Len(l) = 0 \/ l[1] = NameADash}
NoFile == [exists |-> FALSE, readable |-> FALSE, text |-> <<>>]
FileOf(text) == [exists |-> TRUE, readable |-> TRUE, text |-> text]
Unreadable(text) == [exists |-> TRUE, readable |-> FALSE, text |-> text]
PriorArrays ==
    {[j \in 1..Len(s) |-> Municipality(s[j], 0)] : s \in SeqsUpTo(CrawlNames, MaxPrior)}
PriorFiles ==
    {NoFile}
    \cup {FileOf(Stringify(Array(a))) : a \in PriorArrays}
    \cup {Unreadable(Stringify(Array(<<Municipality(NameB, 0)>>))),
          FileOf(<<Tok("lb"), Municipality(NameB, 0)>>), \* a torn array
          FileOf(<<Tok("obj")>>),                        \* {}
          FileOf(<<Tok("null")>>),                       \* null
          FileOf(<<Tok("lb"), Tok("num"), Tok("rb")>>),  \* [5]
          FileOf(<<Tok("lb"), Tok("null"), Tok("rb")>>)} \* [null]

CrawlInit ==
    /\ pc = "discover"
    /\ listing \in Listings
    /\ municipalityLinks = <<>>
    /\ outFile \in PriorFiles
    /\ municipalities = EmptyArray
    /\ linksToProcess = <<>>
    /\ i = 0
    /\ results = <<>>
    /\ abortCause = "none"
    /\ priorFile = outFile
    /\ priorLoaded = EmptyArray
    /\ passed = <<>>
    /\ completed = <<>>
    /\ log = <<>>

(***************************************************************************)
(* crawlMunicipalities, lines 577-644.                                     *)
(***************************************************************************)
Min(a, b) == IF a < b THEN a ELSE b

RECURSIVE NonNullLastFirst(_)
\* The non-null results, the last one first.
NonNullLastFirst(rs) ==
    IF Len(rs) = 0 THEN <<>>
    ELSE IF Head(rs).t = "rec" THEN NonNullLastFirst(Tail(rs)) \o <<Head(rs)>>
    ELSE NonNullLastFirst(Tail(rs))

RECURSIVE NonNull(_)
\* results.filter((m) => m !== null), line 627
NonNull(rs) ==
    IF Len(rs) = 0 THEN <<>>
    ELSE IF Head(rs).t = "rec" THEN <<Head(rs)>> \o NonNull(Tail(rs))
    ELSE NonNull(Tail(rs))

\* The run ends: the memory of the process is gone, the files stay.
Stop(how, cause) ==
    /\ pc' = how
    /\ abortCause' = cause
    /\ municipalityLinks' = <<>>
    /\ municipalities' = EmptyArray
    /\ linksToProcess' = <<>>
    /\ i' = 0
    /\ results' = <<>>

\* getMunicipalityLinks, lines 368-398: one link per row, in document order;
\* fetchHTML throws on a failed request and nothing catches it.
getMunicipalityLinks(rows) ==
    [j \in 1..Len(rows) |-> [name |-> rows[j], url |-> j]]

Discover ==
    /\ pc = "discover"
    /\ \E fetched \in BOOLEAN :
        IF fetched
        THEN /\ municipalityLinks' = getMunicipalityLinks(listing)
             /\ pc' = "resume"
             /\ UNCHANGED <<municipalities, linksToProcess, i, results, abortCause>>
        ELSE Stop("aborted", "discover")
    /\ UNCHANGED <<listing, priorFile, outFile, priorLoaded, passed, completed, log>>
    /\ UNCHANGED stylVars

\* Lines 590-597: readFile throws for a missing or unreadable file, JSON.parse
\* throws for malformed text; municipalities.length throws for null, after the
\* assignment of line 593 has been made.  The catch swallows all three.
LoadExisting(file) ==
    IF ~file.exists \/ ~file.readable THEN EmptyArray
    ELSE LET parsed == Parse(file.text)
         IN IF parsed.ok THEN parsed.val ELSE EmptyArray

Resume ==
    /\ pc = "resume"
    /\ \E mkdirOk \in BOOLEAN :
        IF mkdirOk
        THEN /\ municipalities' = LoadExisting(outFile)
             /\ priorLoaded' = municipalities'
             /\ pc' = "filter"
             /\ UNCHANGED <<municipalityLinks, linksToProcess, i, results, abortCause>>
        ELSE /\ Stop("aborted", "mkdir")
             /\ UNCHANGED priorLoaded
    /\ UNCHANGED <<listing, priorFile, outFile, passed, completed, log>>
    /\ UNCHANGED stylVars

\* municipalities.map((m) => m.name), line 600: a TypeError when the value has
\* no map method or an element is null; undefined for an element without name.
MapThrows(v) == v.k # "array" \/ \E j \in 1..Len(v.items) : v.items[j].t = "null"
NameOf(e) == IF e.t = "rec" THEN e.name ELSE Undefined
processedNames(v) == {NameOf(v.items[j]) : j \in 1..Len(v.items)}

\* A filter that lets every link through.
FilterLinksKeepAll(links, done) == links

\* municipalityLinks.filter(({ name }) => !processedNames.has(name)), line 603
FilterLinks(links, done) == SelectSeq(links, LAMBDA l : l.name \notin done)

Filter ==
    /\ pc = "filter"
    /\ IF MapThrows(municipalities)
       THEN Stop("aborted", "filter")
       ELSE /\ linksToProcess' = FilterLinks(municipalityLinks, processedNames(municipalities))
            /\ i' = 0
            /\ pc' = "loop"
            /\ UNCHANGED <<municipalityLinks, municipalities, results, abortCause>>
    /\ UNCHANGED <<listing, priorFile, outFile, priorLoaded, passed, completed, log>>
    /\ UNCHANGED stylVars

\* Lines 613-624: the next slice of linksToProcess; extractMunicipalityData is
\* called for each member, in order, and the promises are awaited together.
Running == Tok("running")
Rejected == Tok("rejected")
Batch(links, from) == SubSeq(links, from + 1, Min(from + BATCH_SIZE, Len(links)))

BatchStart ==
    /\ pc = "loop"
    /\ i < Len(linksToProcess)
    /\ LET batch == Batch(linksToProcess, i)
       IN /\ results' = [p \in 1..Len(batch) |-> Running]
          /\ passed' = passed \o batch
          /\ log' = Append(log, [e |-> "batch", n |-> Len(batch)])
    /\ pc' = "batch"
    /\ UNCHANGED <<listing, priorFile, municipalityLinks, outFile, municipalities, linksToProcess,
                   i, abortCause, priorLoaded, completed>>
    /\ UNCHANGED stylVars

\* extractMunicipalityData, lines 400-575.  The body of the try block, by what
\* the page, the text model and the stylizer do.
ThrowOutcomes == {"fetchThrows", "aiThrows", "parseThrows", "stylizerThrows"}
NullOutcomes == {"noInfobox", "emptyAnswer", "noJson"}
RecordOutcomes == {"resolveFails", "stylizerNull", "ok"}
ExtractOutcomes == ThrowOutcomes \cup NullOutcomes \cup RecordOutcomes

TryBody(link, o) ==
    IF o \in ThrowOutcomes THEN [kind |-> "throw", value |-> Null]
    ELSE IF o \in NullOutcomes THEN [kind |-> "return", value |-> Null]
    ELSE [kind |-> "return", value |-> Municipality(link.name, link.url)]

\* A pipeline without its catch: the error rejects the promise.
ExtractCatchRethrow(r) == IF r.kind = "throw" THEN Tok("rejected") ELSE r.value

\* catch (error) { console.error(...); return null; }, lines 571-574
ExtractCatch(r) == IF r.kind = "throw" THEN Null ELSE r.value

extractMunicipalityData(link, o) == ExtractCatch(TryBody(link, o))

\* One pipeline of the running batch settles.  A rejected promise makes
\* Promise.all reject, and nothing in crawlMunicipalities catches that.
Extract(p) ==
    /\ pc = "batch"
    /\ results[p] = Running
    /\ \E o \in ExtractOutcomes :
        LET r == extractMunicipalityData(linksToProcess[i + p], o)
        IN IF r = Rejected
           THEN Stop("aborted", "extract")
           ELSE /\ results' = [results EXCEPT ![p] = r]
                /\ UNCHANGED <<pc, municipalityLinks, municipalities,
                               linksToProcess, i, abortCause>>
    /\ UNCHANGED <<listing, priorFile, outFile, priorLoaded, passed, completed, log>>
    /\ UNCHANGED stylVars

\* A Promise.all that never resolves.
SettledNever(rs) == FALSE

\* Lines 626-631, up to the call of fs.writeFile.
Settled(rs) == \A p \in 1..Len(rs) : rs[p] # Running

BatchJoin ==
    /\ pc = "batch"
    /\ Settled(results)
    /\ municipalities' = Array(municipalities.items \o NonNull(results))
    /\ pc' = "writeOpen"
    /\ UNCHANGED <<listing, priorFile, municipalityLinks, outFile, linksToProcess, i, results,
                   abortCause, priorLoaded, passed, completed, log>>
    /\ UNCHANGED stylVars

\* fs.writeFile(outputPath, text): the file is opened with truncation, then
\* the text is written.  Either step can throw.
WriteOpen ==
    /\ pc = "writeOpen"
    /\ \E opened \in BOOLEAN :
        IF opened
        THEN /\ outFile' = FileOf(<<>>)
             /\ pc' = "writeData"
             /\ UNCHANGED <<municipalityLinks, municipalities, linksToProcess, i,
                            results, abortCause>>
        ELSE /\ Stop("aborted", "write")
             /\ UNCHANGED outFile
    /\ UNCHANGED <<listing, priorFile, priorLoaded, passed, completed, log>>
    /\ UNCHANGED stylVars

\* What an interrupted write leaves: nothing, a first half, everything but the
\* last token, or the whole text.
Prefixes(text) ==
    {SubSeq(text, 1, n) : n \in {0, Len(text) \div 2, Len(text) - 1, Len(text)}}

\* The comparison of line 635 with <= for <.
SleepNeededOffByOne(from, n) == from + BATCH_SIZE <= n

\* if (i + BATCH_SIZE < linksToProcess.length), line 635
SleepNeeded(from, n) == from + BATCH_SIZE < n

WriteData ==
    /\ pc = "writeData"
    /\ \E written \in BOOLEAN :
        IF written
        THEN /\ outFile' = FileOf(Stringify(municipalities))
             /\ completed' = completed \o NonNull(results)
             /\ log' = Append(log, [e |-> "write", n |-> 0])
             /\ results' = <<>>
             /\ IF SleepNeeded(i, Len(linksToProcess))
                THEN pc' = "sleep" /\ i' = i
                ELSE pc' = "loop" /\ i' = i + BATCH_SIZE
             /\ UNCHANGED <<municipalityLinks, municipalities, linksToProcess, abortCause>>
        ELSE /\ \E part \in Prefixes(Stringify(municipalities)) : outFile' = FileOf(part)
             /\ Stop("aborted", "write")
             /\ UNCHANGED <<completed, log>>
    /\ UNCHANGED <<listing, priorFile, priorLoaded, passed>>
    /\ UNCHANGED stylVars

\* setTimeout(resolve, 1000), line 636, then i += BATCH_SIZE
Sleep ==
    /\ pc = "sleep"
    /\ log' = Append(log, [e |-> "sleep", n |-> SleepMs])
    /\ i' = i + BATCH_SIZE
    /\ pc' = "loop"
    /\ UNCHANGED <<listing, priorFile, municipalityLinks, outFile, municipalities, linksToProcess,
                   results, abortCause, priorLoaded, passed, completed>>
    /\ UNCHANGED stylVars

\* Lines 640-643: the loop is over.
Finish ==
    /\ pc = "loop"
    /\ i >= Len(linksToProcess)
    /\ pc' = "done"
    /\ UNCHANGED <<listing, priorFile, municipalityLinks, outFile, municipalities, linksToProcess,
                   i, results, abortCause, priorLoaded, passed, completed, log>>
    /\ UNCHANGED stylVars

\* The process is killed.  A write in progress leaves what it had written.
Stopped == pc \in {"done", "aborted", "crashed"}

Crash ==
    /\ ~Stopped
    /\ IF pc = "writeData"
       THEN \E part \in Prefixes(Stringify(municipalities)) : outFile' = FileOf(part)
       ELSE UNCHANGED outFile
    /\ Stop("crashed", "none")
    /\ UNCHANGED <<listing, priorFile, priorLoaded, passed, completed, log>>
    /\ UNCHANGED stylVars

StylIdle ==
    /\ imgFiles = {}
    /\ inv = <<>>
    /\ imgWritten = {}
    /\ round = 0

Init == CrawlInit /\ StylIdle

Next ==
    \/ Discover
    \/ Resume
    \/ Filter
    \/ BatchStart
    \/ \E p \in 1..BATCH_SIZE : p <= Len(results) /\ Extract(p)
    \/ BatchJoin
    \/ WriteOpen
    \/ WriteData
    \/ Sleep
    \/ Finish
    \/ Crash

Spec == Init /\ [][Next]_vars

(***************************************************************************)
(* generateStylizedImage, lines 91-366, as the pipelines of a batch run     *)
(* it: each invocation is a sequence of awaits, and the invocations of one *)
(* batch interleave at them.                                               *)
(***************************************************************************)
\* municipality.name.replace(/[^a-zA-Z0-9]/g, "_"), lines 103 and 321
Sanitize(name) == [j \in 1..Len(name) |-> IF name[j] \in AlphaNum THEN name[j] ELSE "_"]
Path(name, ext) == [base |-> Sanitize(name), ext |-> ext]
pngPath(name) == Path(name, "png")
jpgPath(name) == Path(name, "jpg")
NoPath == [base |-> <<>>, ext |-> "none"]

\* Error messages, as the pieces of text the classification looks for.
Msg500 == <<"got status ", "500", " Internal Server Error">>
MsgInternal == <<"13 ", "INTERNAL", ": internal error">>
MsgExhausted == <<"429 ", "RESOURCE_EXHAUSTED">>
MsgInvalid == <<"400 ", "INVALID_ARGUMENT">>
MsgNoSpace == <<"ENOSPC: no space left on device, write">>
Messages == {Msg500, MsgInternal, MsgExhausted, MsgInvalid}
WriteMessages == {MsgNoSpace}
includes(msg, piece) == \E j \in 1..Len(msg) : msg[j] = piece

\* Every error is retried.
IsRetryableAlways(msg) == TRUE

\* Lines 337-341
IsRetryable(msg) ==
    \/ includes(msg, "500")
    \/ includes(msg, "INTERNAL")
    \/ includes(msg, "RESOURCE_EXHAUSTED")

\* A backoff that starts at one second.
WaitTimeFromOne(attempt) == 2 ^ (attempt - 1) * 1000

\* Math.pow(2, attempt) * 1000, line 349
WaitTime(attempt) == 2 ^ attempt * 1000

\* The answers of the image model: the parts of the first candidate, each
\* with the mime type of its inline data ("text" for a text part, "" for
\* inline data without a declared type).
Responses == {<<>>, <<"text">>, <<"text", "image/png">>, <<"image/jpeg", "text">>,
              <<"image/webp">>, <<"">>}
\* responseParts.find((p) => p.inlineData?.data), line 306
HasImage(parts) == \E j \in 1..Len(parts) : parts[j] # "text"
ImagePart(parts) ==
    parts[CHOOSE j \in 1..Len(parts) :
              parts[j] # "text" /\ \A k \in 1..(j - 1) : parts[k] = "text"]
\* Lines 313 and 320
ExtOf(mime) == IF (IF mime = "" THEN "image/png" ELSE mime) = "image/jpeg" THEN "jpg" ELSE "png"

Fresh(name) ==
    [name |-> name, pc |-> "pending", attempt |-> 1, aiCalls |-> 0, waits |-> <<>>,
     ext |-> "none", err |-> <<>>, resp |-> "none", result |-> NoPath,
     how |-> "running", entry |-> {}, seen |-> {}]

OnDisk(name) == {f \in imgFiles : f.base = Sanitize(name)}
Idle == \A p \in 1..Len(inv) : inv[p].pc = "returned"

\* Lines 622-624: the pipelines of the next batch start.  Their invocations
\* interleave freely, so a batch is taken up to the order of its members.
StartStylize ==
    /\ Idle
    /\ round < MaxRounds
    /\ \E k, m \in 0..MaxConc :
          /\ k + m \in 1..MaxConc
          /\ inv' = [p \in 1..(k + m) |-> Fresh(IF p <= k THEN NameADash ELSE NameASpace)]
    /\ round' = round + 1
    /\ UNCHANGED <<imgFiles, imgWritten>>
    /\ UNCHANGED crawlVars

\* Line 549: a pipeline reaches generateStylizedImage.
Invoke(p) ==
    /\ inv[p].pc = "pending"
    /\ inv' = [inv EXCEPT ![p] =
                 [@ EXCEPT !.pc = "accessPng",
                           !.entry = OnDisk(inv[p].name),
                           !.seen = {w.path : w \in {x \in imgWritten : x.name = inv[p].name}}]]
    /\ UNCHANGED <<imgFiles, imgWritten, round>>
    /\ UNCHANGED crawlVars

Return(l, path, how) == [l EXCEPT !.pc = "returned", !.result = path, !.how = how]

\* Lines 107-113: fs.access(pngPath)
AccessPng(p) ==
    /\ inv[p].pc = "accessPng"
    /\ inv' = [inv EXCEPT ![p] =
                 IF pngPath(@.name) \in imgFiles
                 THEN Return(@, pngPath(@.name), "existing")
                 ELSE [@ EXCEPT !.pc = "accessJpg"]]
    /\ UNCHANGED <<imgFiles, imgWritten, round>>
    /\ UNCHANGED crawlVars

\* Lines 114-170: fs.access(jpgPath); then the prompt is built and the loop
\* starts with attempt = 1.
AccessJpg(p) ==
    /\ inv[p].pc = "accessJpg"
    /\ inv' = [inv EXCEPT ![p] =
                 IF jpgPath(@.name) \in imgFiles
                 THEN Return(@, jpgPath(@.name), "existing")
                 ELSE [@ EXCEPT !.pc = "callAI", !.attempt = 1]]
    /\ UNCHANGED <<imgFiles, imgWritten, round>>
    /\ UNCHANGED crawlVars

\* The catch block, lines 333-362.
OnError(l, msg) ==
    LET e == [l EXCEPT !.err = msg]
    IN IF IsRetryable(msg)
       THEN IF l.attempt = maxRetries
            THEN Return(e, NoPath, "error")
            ELSE [e EXCEPT !.pc = "backoff", !.waits = Append(@, WaitTime(l.attempt))]
       ELSE Return(e, NoPath, "error")

\* A response without an image is thrown like a server error.
OnResponseThrows(l, parts) ==
    IF HasImage(parts)
    THEN [l EXCEPT !.pc = "write", !.ext = ExtOf(ImagePart(parts))]
    ELSE OnError(l, MsgInternal)

\* Lines 304-320: the first part with inline data, or null at once.
OnResponse(l, parts) ==
    IF HasImage(parts)
    THEN [l EXCEPT !.pc = "write", !.ext = ExtOf(ImagePart(parts))]
    ELSE Return(l, NoPath, "noimage")

\* Lines 171-311 and the catch: the reference images are fetched (their
\* failures are swallowed, lines 212 and 286), the image model is called, and
\* it answers or throws.
CallAI(p) ==
    /\ inv[p].pc = "callAI"
    /\ LET l == [inv[p] EXCEPT !.aiCalls = @ + 1]
       IN \/ \E msg \in Messages :
                inv' = [inv EXCEPT ![p] = OnError([l EXCEPT !.resp = "threw"], msg)]
          \/ \E parts \in Responses :
                inv' = [inv EXCEPT ![p] =
                          OnResponse([l EXCEPT !.resp = IF HasImage(parts) THEN "image"
                                                        ELSE "noimage"], parts)]
    /\ UNCHANGED <<imgFiles, imgWritten, round>>
    /\ UNCHANGED crawlVars

\* Lines 316-332 and the catch: fs.mkdir and fs.writeFile; a failed write may
\* have created the file.
WriteImage(p) ==
    /\ inv[p].pc = "write"
    /\ LET l == inv[p]
           filePath == Path(l.name, l.ext)
       IN \/ /\ imgFiles' = imgFiles \cup {filePath}
             /\ inv' = [inv EXCEPT ![p] = Return(l, filePath, "wrote")]
             /\ imgWritten' = imgWritten \cup {[name |-> l.name, path |-> filePath]}
          \/ /\ \E msg \in WriteMessages : inv' = [inv EXCEPT ![p] = OnError(l, msg)]
             /\ \E created \in BOOLEAN :
                   imgFiles' = IF created THEN imgFiles \cup {filePath} ELSE imgFiles
             /\ UNCHANGED imgWritten
    /\ UNCHANGED round
    /\ UNCHANGED crawlVars

\* Line 355: the timer fires and the loop goes on with the next attempt; the
\* caught error is out of scope.
Backoff(p) ==
    /\ inv[p].pc = "backoff"
    /\ inv' = [inv EXCEPT ![p] = [@ EXCEPT !.pc = "callAI", !.attempt = @ + 1,
                                              !.err = <<>>, !.resp = "none"]]
    /\ UNCHANGED <<imgFiles, imgWritten, round>>
    /\ UNCHANGED crawlVars

CrawlIdle ==
    /\ pc = "discover"
    /\ listing = <<>>
    /\ municipalityLinks = <<>>
    /\ outFile = NoFile
    /\ municipalities = EmptyArray
    /\ linksToProcess = <<>>
    /\ i = 0
    /\ results = <<>>
    /\ abortCause = "none"
    /\ priorFile = NoFile
    /\ priorLoaded = EmptyArray
    /\ passed = <<>>
    /\ completed = <<>>
    /\ log = <<>>

InitStylizer == CrawlIdle /\ StylIdle

NextStylizer ==
    \/ StartStylize
    \/ \E p \in 1..MaxConc : p <= Len(inv) /\ Invoke(p)
    \/ \E p \in 1..MaxConc : p <= Len(inv) /\ AccessPng(p)
    \/ \E p \in 1..MaxConc : p <= Len(inv) /\ AccessJpg(p)
    \/ \E p \in 1..MaxConc : p <= Len(inv) /\ CallAI(p)
    \/ \E p \in 1..MaxConc : p <= Len(inv) /\ WriteImage(p)
    \/ \E p \in 1..MaxConc : p <= Len(inv) /\ Backoff(p)

SpecStylizer == InitStylizer /\ [][NextStylizer]_vars

(***************************************************************************)
(* Properties of a run.                                                    *)
(***************************************************************************)
IsPrefix(a, b) == Len(a) <= Len(b) /\ a = SubSeq(b, 1, Len(a))
Ceil5(n) == (n + 4) \div 5

\* What the run found in the output file, read as the specification reads it.
PriorParsed == Parse(priorFile.text)
PriorUsable ==
    \/ ~priorFile.exists
    \/ /\ priorFile.readable
       /\ PriorParsed.ok
       /\ PriorParsed.val.k = "array"
       /\ \A j \in 1..Len(PriorParsed.val.items) : PriorParsed.val.items[j].t = "rec"
PriorItems == IF priorFile.exists /\ PriorUsable THEN PriorParsed.val.items ELSE <<>>
PriorNames == {priorLoaded.items[j].name :
                  j \in {k \in 1..Len(priorLoaded.items) : priorLoaded.items[k].t = "rec"}}

RECURSIVE Pending(_, _)
Pending(rows, names) ==
    IF Len(rows) = 0 THEN <<>>
    ELSE IF Head(rows).name \in names THEN Pending(Tail(rows), names)
    ELSE <<Head(rows)>> \o Pending(Tail(rows), names)

Discovered == [j \in 1..Len(listing) |-> [name |-> listing[j], url |-> j]]
PendingLinks == Pending(Discovered, PriorNames)

\* C2: the links handed to extractMunicipalityData are exactly the discovered
\* links whose name is not a name of the loaded prior records, in discovery
\* order: at every moment a prefix of that list, at the end of the run all of
\* it, and never a link whose name is in the prior output.
C2_ResumeFiltering ==
    /\ IsPrefix(passed, PendingLinks)
    /\ \A j \in 1..Len(passed) : passed[j].name \notin PriorNames
    /\ pc = "done" => passed = PendingLinks

C2_Witness ==
    /\ pc = "done"
    /\ PriorNames = {NameADash}
    /\ \E j \in 1..Len(listing) : listing[j] = NameADash
    /\ Len(passed) >= 2
    /\ \A j \in 1..Len(passed) : passed[j].name = NameB

\* The events of a run over n pending links: per batch its start (with its
\* size) and its write, and a sleep after every batch but the last.
ExpectedLog(n) ==
    LET B == Ceil5(n)
        size(b) == IF b < B THEN 5 ELSE n - 5 * (B - 1)
    IN [j \in 1..(IF B = 0 THEN 0 ELSE 3 * B - 1) |->
          LET b == (j + 2) \div 3
          IN IF j % 3 = 1 THEN [e |-> "batch", n |-> size(b)]
             ELSE IF j % 3 = 2 THEN [e |-> "write", n |-> 0]
             ELSE [e |-> "sleep", n |-> 1000]]
Count(e) == Cardinality({j \in 1..Len(log) : log[j].e = e})

\* C3: over n pending links the run starts ceil(n/5) batches, of size 5 but
\* for the last, writes the output file once per batch and only when every
\* extraction of the batch has settled, and sleeps 1 s between two batches
\* and not after the last: ceil(n/5) - 1 sleeps for n >= 1, none for n = 0.
C3_BatchesWritesSleeps ==
    LET n == Len(PendingLinks)
    IN /\ IsPrefix(log, ExpectedLog(n))
       /\ pc \in {"writeOpen", "writeData"} => Settled(results)
       /\ Count("write") <= Count("batch")
       /\ pc = "done" =>
            /\ log = ExpectedLog(n)
            /\ Count("batch") = Ceil5(n)
            /\ Count("write") = Ceil5(n)
            /\ Count("sleep") = IF n = 0 THEN 0 ELSE Ceil5(n) - 1

C3_Witness ==
    /\ pc = "done"
    /\ Len(linksToProcess) = 6
    /\ log = <<[e |-> "batch", n |-> 5], [e |-> "write", n |-> 0],
               [e |-> "sleep", n |-> 1000],
               [e |-> "batch", n |-> 1], [e |-> "write", n |-> 0]>>

\* C4: wherever the run stops, an existing output file is a valid JSON array:
\* the prior records followed by the non-null records of the batches whose
\* write finished.  (Stated for runs that found no file or a well-formed one.)
C4_PartialOutputValid ==
    (Stopped /\ outFile.exists /\ PriorUsable) =>
        /\ Parse(outFile.text).ok
        /\ Parse(outFile.text).val = Array(PriorItems \o completed)

\* C5: a failing record never ends the run: each pipeline settles with null
\* or with the record of its link, the run is rejected only by discovery,
\* directory creation, the load of the prior output or a file write, and a
\* run that ends normally has handed every pending link to a pipeline and
\* written once per batch.
C5_FailuresAreContained ==
    /\ pc = "aborted" => abortCause \in {"discover", "mkdir", "filter", "write"}
    /\ \A p \in 1..Len(results) :
          \/ results[p] \in {Running, Null}
          \/ /\ pc \in {"batch", "writeOpen", "writeData"}
             /\ results[p] = Municipality(linksToProcess[i + p].name,
                                          linksToProcess[i + p].url)
    /\ pc = "done" => /\ passed = linksToProcess
                      /\ Count("write") = Count("batch")

InOutput(l) == \E j \in 1..Len(municipalities.items) :
                  municipalities.items[j] = Municipality(l.name, l.url)
C5_Witness ==
    /\ pc = "done"
    /\ Len(passed) = 6
    /\ \E j \in 1..5 : ~InOutput(passed[j])
    /\ \E j \in 1..5 : InOutput(passed[j])
    /\ InOutput(passed[6])
    /\ outFile = FileOf(Stringify(municipalities))

\* C6: name is a unique key of the result sequence: no two records of it have
\* the same name, and no link whose name is already in it is processed.
\* (Stated for runs whose prior output holds no name twice.)
RecordNames(items) == {items[j].name : j \in {k \in 1..Len(items) : items[k].t = "rec"}}
NoNameTwice(items) ==
    \A a, b \in 1..Len(items) :
        (a # b /\ items[a].t = "rec" /\ items[b].t = "rec") => items[a].name # items[b].name
C6_NameIsUniqueKey ==
    NoNameTwice(priorLoaded.items) =>
        /\ NoNameTwice(municipalities.items)
        /\ pc = "batch" =>
              \A p \in 1..Len(results) :
                  linksToProcess[i + p].name \notin RecordNames(municipalities.items)

\* C10: whatever keeps the Resume step from obtaining prior records (no file,
\* an unreadable file, text that is not JSON, JSON that is not an array of
\* records), the run goes on with an empty prior result set and every
\* discovered link pending.
C10_ResumeNeverAborts ==
    ~(priorFile.exists /\ PriorUsable) =>
        /\ abortCause # "filter"
        /\ pc \in {"loop", "batch", "writeOpen", "writeData", "sleep", "done"} =>
              /\ priorLoaded = EmptyArray
              /\ linksToProcess = municipalityLinks

(***************************************************************************)
(* Properties of generateStylizedImage.                                    *)
(***************************************************************************)
\* The errors the specification calls transient.
Transient(msg) ==
    \E piece \in {"500", "INTERNAL", "RESOURCE_EXHAUSTED"} :
        \E j \in 1..Len(msg) : msg[j] = piece
Invocations == {inv[p] : p \in 1..Len(inv)}

\* C1, as claimed: an error is followed by another attempt only if it is
\* transient and fewer than 3 attempts were made; an error that is not
\* transient ends the call with null after exactly 1 AI call; a transient
\* error on the third attempt ends it with null after exactly 3 AI calls; no
\* invocation calls the image model more than 3 times.
C1_RetryPolicyAsClaimed ==
    \A l \in Invocations :
        /\ l.aiCalls <= 3
        /\ l.pc = "backoff" => (Transient(l.err) /\ l.attempt < 3)
        /\ (l.how = "error" /\ ~Transient(l.err)) => (l.result = NoPath /\ l.aiCalls = 1)
        /\ (l.how = "error" /\ Transient(l.err)) => (l.result = NoPath /\ l.aiCalls = 3)

\* C1, amended: as above, but an error that is not transient ends the call
\* with null after the AI call of the attempt it occurred in and no further
\* one: k calls when k - 1 transient errors came before it, 1 when it is the
\* first error of the call.
C1_RetryPolicy ==
    \A l \in Invocations :
        /\ l.aiCalls <= 3
        /\ l.attempt <= 3
        /\ l.pc = "backoff" => (Transient(l.err) /\ l.attempt < 3)
        /\ (l.how = "error" /\ ~Transient(l.err)) =>
              /\ l.result = NoPath
              /\ l.pc = "returned"
              /\ l.aiCalls = Len(l.waits) + 1
              /\ l.aiCalls = l.attempt
        /\ (l.how = "error" /\ Transient(l.err)) => (l.result = NoPath /\ l.aiCalls = 3)

C1_Witness ==
    \E l \in Invocations :
        /\ l.how = "error"
        /\ l.err = MsgInvalid
        /\ l.aiCalls = 2
        /\ l.result = NoPath

\* C7: an invocation for a name whose stylized file exists when it is invoked
\* makes no AI call and returns an existing path; two invocations for a name
\* that found the same files return the same path; and an invocation made
\* after one for the same name returned from a successful write makes no AI
\* call and returns the path that one wrote.
C7_Idempotent ==
    \A l \in Invocations :
        l.pc = "returned" =>
            /\ l.entry # {} => (l.aiCalls = 0 /\ l.result \in l.entry)
            /\ \A w \in l.seen : l.aiCalls = 0 /\ l.result = w
            /\ \A m \in Invocations :
                  (m.pc = "returned" /\ m.name = l.name /\ m.entry = l.entry /\ l.entry # {})
                      => m.result = l.result

\* C8: the k-th wait of an invocation is 2^k seconds and precedes attempt
\* k + 1; there are at most two, none after the last attempt or after an
\* error that is not retried; an invocation that wrote its file after two
\* waits made exactly 3 AI calls and returns the path of the file.
C8_Backoff ==
    \A l \in Invocations :
        /\ \A k \in 1..Len(l.waits) : l.waits[k] = 2 ^ k * 1000
        /\ Len(l.waits) = IF l.pc = "backoff" THEN l.attempt ELSE l.attempt - 1
        /\ Len(l.waits) <= 2
        /\ (l.pc = "returned" /\ l.aiCalls >= 1) => Len(l.waits) = l.aiCalls - 1
        /\ (l.how = "wrote" /\ Len(l.waits) = 2) =>
              /\ l.aiCalls = 3
              /\ l.result = [base |-> Sanitize(l.name), ext |-> l.ext]
              /\ l.result \in imgFiles

C8_Witness ==
    \E l \in Invocations :
        /\ l.how = "wrote"
        /\ l.waits = <<2000, 4000>>
        /\ l.aiCalls = 3
        /\ l.result \in imgFiles

\* C9: an answer of the image model without inline image data ends the
\* invocation at once with null, at any attempt: the step writes no file and
\* sets no timer, and no AI call, wait or write of the invocation follows.
C9_NoImageState ==
    \A l \in Invocations :
        l.resp = "noimage" =>
            /\ l.pc = "returned"
            /\ l.result = NoPath
            /\ l.aiCalls = l.attempt
            /\ Len(l.waits) = l.attempt - 1
C9_NoImageStep ==
    \A p \in 1..Len(inv) :
        /\ (round' = round /\ inv[p].pc = "callAI" /\ inv'[p].resp = "noimage") =>
              (imgFiles' = imgFiles /\ inv'[p].waits = inv[p].waits)
        /\ (round' = round /\ inv[p].resp = "noimage") => inv'[p] = inv[p]
\* C9: the state part and the step part together.
C9_NoImageReturnsNull == [](C9_NoImageState) /\ [][C9_NoImageStep]_vars

C9_Witness ==
    \E l \in Invocations :
        /\ l.resp = "noimage"
        /\ l.attempt = 2
        /\ l.result = NoPath
        /\ l.pc = "returned"

\* C11: no two pipelines of one batch check for and then write the same
\* stylized-image file: of the invocations of a batch, no two have both found
\* no file at a path and written it.
C11_NoSharedImagePath ==
    \A p, q \in 1..Len(inv) :
        (p # q /\ inv[p].how = "wrote" /\ inv[q].how = "wrote")
            => inv[p].result # inv[q].result

\* The record a pipeline returns for a link, and the records the run has
\* appended after the loaded ones.
RecordOf(l) == Municipality(l.name, l.url)
Appended ==
    SubSeq(municipalities.items, Len(priorLoaded.items) + 1, Len(municipalities.items))
RECURSIVE IsSubseq(_, _)
IsSubseq(a, b) ==
    IF Len(a) = 0 THEN TRUE
    ELSE IF Len(b) = 0 THEN FALSE
    ELSE IF Head(a) = Head(b) THEN IsSubseq(Tail(a), Tail(b))
    ELSE IsSubseq(a, Tail(b))

\* C12: whatever the order in which the pipelines of a batch settle, the
\* result sequence is the prior records followed by the records of the
\* processed links in the order of the pending list: the records of a batch
\* are those of its links that did not yield null, in the order of the links,
\* after the records of the batches before it; and the file a finished write
\* leaves holds that sequence.
C12_ResultOrder ==
    pc \in {"loop", "batch", "writeOpen", "writeData", "sleep", "done"} =>
        /\ IsPrefix(priorLoaded.items, municipalities.items)
        /\ IsSubseq(Appended, [j \in 1..Len(passed) |-> RecordOf(passed[j])])
        /\ pc \in {"writeOpen", "writeData"} =>
              \A q \in 1..Len(results) :
                  (results[q].t = "rec") <=>
                      (\E j \in 1..Len(Appended) : Appended[j] = RecordOf(linksToProcess[i + q]))
        /\ (pc \in {"loop", "sleep", "done"} /\ Count("write") > 0) =>
              outFile = FileOf(Stringify(municipalities))

C12_Witness ==
    /\ pc = "done"
    /\ Len(priorLoaded.items) = 1
    /\ Len(passed) = 6
    /\ \E a, b, c \in 1..5 :
          /\ a < b /\ b < c
          /\ InOutput(passed[a]) /\ ~InOutput(passed[b]) /\ InOutput(passed[c])
    /\ InOutput(passed[6])
    /\ outFile = FileOf(Stringify(municipalities))

(***************************************************************************)
(* Termination.  Every external call (a fetch, a call of a model, a file   *)
(* operation, a timer) eventually returns or throws, so a step that can be *)
(* taken is eventually taken; the process is not killed.  A behaviour is   *)
(* a run of crawlMunicipalities, whose pipelines settle in one step each,  *)
(* or the invocations of generateStylizedImage that such pipelines make.   *)
(***************************************************************************)
RunSteps ==
    \/ Discover
    \/ Resume
    \/ Filter
    \/ BatchStart
    \/ \E p \in 1..BATCH_SIZE : p <= Len(results) /\ Extract(p)
    \/ BatchJoin
    \/ WriteOpen
    \/ WriteData
    \/ Sleep
    \/ Finish

StylizerSteps ==
    \E p \in 1..MaxConc :
        /\ p <= Len(inv)
        /\ \/ Invoke(p)
           \/ AccessPng(p)
           \/ AccessJpg(p)
           \/ CallAI(p)
           \/ WriteImage(p)
           \/ Backoff(p)

NextLive ==
    \/ StylIdle /\ RunSteps
    \/ CrawlIdle /\ StartStylize
    \/ CrawlIdle /\ StylizerSteps

SpecLive ==
    /\ Init
    /\ [][NextLive]_vars
    /\ WF_vars(StylIdle /\ RunSteps)
    /\ WF_vars(CrawlIdle /\ StylizerSteps)

\* C13: every run of crawlMunicipalities eventually ends, normally or with an
\* error; the loop index moves only by BATCH_SIZE upwards (or is dropped with
\* the run); every invocation of generateStylizedImage eventually returns,
\* and none makes more than maxRetries attempts.
C13_Terminates ==
    /\ <>(pc \in {"done", "aborted"} \/ round > 0)
    /\ (~Idle) ~> Idle
    /\ [][i' # i => (i' = i + BATCH_SIZE \/ pc' = "aborted")]_vars
    /\ [](\A p \in 1..Len(inv) : inv[p].attempt <= maxRetries /\ inv[p].aiCalls <= maxRetries)

C13_Witness ==
    /\ pc = "done"
    /\ Len(linksToProcess) = 6
    /\ i = 2 * BATCH_SIZE
    /\ Count("write") = 2

====
